---- MODULE Spec2Model ----
(***************************************************************************)
(* ShogiAreaController (frontend/src/classes/interactable): the client     *)
(* side mirror of a Shogi game area.  The model covers the SFEN board      *)
(* codec (createBoardFromSfen, _boardToSfen), the derived getters, the     *)
(* snapshot handler _updateFrom and the two commands startGame, makeMove.  *)
(*                                                                         *)
(* Strings are sequences of one-character strings, so that split, index    *)
(* and concatenation behave as they do on JavaScript strings.  JavaScript  *)
(* indices start at 0 and the sequences here at 1: row r, file f of the    *)
(* source is board[r + 1][f + 1] here.                                     *)
(***************************************************************************)
EXTENDS Integers, Sequences, FiniteSets, TLC

\* ------------------------------------------------------------------ bounds

\* Largest move counter a snapshot carries.
MaxMoves == 1
\* Largest number of fields in which a snapshot differs from the one before it.
MaxDelta == 2
\* Largest number of commands awaiting the transport's answer.
MaxPending == 1
\* Largest number of cells overwritten on the board of a codec run.
MaxEdits == 2

\* --------------------------------------------------------------- constants

SHOGI_ROWS == 9
SHOGI_COLS == 9

\* JavaScript's undefined.
Undefined == "undefined"
\* The characters of the string "undefined" (what char + undefined appends).
StrUndefined == <<"u", "n", "d", "e", "f", "i", "n", "e", "d">>
\* The cell value createBoardFromSfen fills the grid with: the string ' '.
EmptyCell == <<" ">>
\* A hole of a JavaScript array written past its end.
Hole == <<>>

NO_GAME_IN_PROGRESS_ERROR == "NO_GAME_IN_PROGRESS_ERROR"
NO_GAME_STARTABLE == "NO_GAME_STARTABLE"
PLAYER_NOT_IN_GAME_ERROR == "PLAYER_NOT_IN_GAME_ERROR"

\* ------------------------------------------------------------ the codec

Digits == {"0", "1", "2", "3", "4", "5", "6", "7", "8", "9"}

\* parseInt(char, 10) of a one-character string: its digit value; NaN (not in
\* the domain) for every other character.
parseInt ==
  [ch \in Digits |->
     CASE ch = "0" -> 0 [] ch = "1" -> 1 [] ch = "2" -> 2 [] ch = "3" -> 3
       [] ch = "4" -> 4 [] ch = "5" -> 5 [] ch = "6" -> 6 [] ch = "7" -> 7
       [] ch = "8" -> 8 [] ch = "9" -> 9]

\* Number.isNaN(parseInt(char, 10))
isNaNparseInt(ch) == ch \notin Digits

\* String(n) of a non-negative integer, as the characters of its decimal form.
RECURSIVE NumToStr(_)
NumToStr(n) ==
  LET d == CHOOSE ch \in Digits : parseInt[ch] = n % 10
  IN  IF n < 10 THEN <<d>> ELSE NumToStr(n \div 10) \o <<d>>

\* s.split(sep): the pieces of s between the occurrences of the character sep.
RECURSIVE split(_, _)
split(s, sep) ==
  IF \A k \in 1..Len(s) : s[k] # sep
    THEN <<s>>
    ELSE LET k == CHOOSE i \in 1..Len(s) :
                    s[i] = sep /\ \A j \in 1..(i - 1) : s[j] # sep
         IN  <<SubSeq(s, 1, k - 1)>> \o split(SubSeq(s, k + 1, Len(s)), sep)

\* row[file] = v on a JavaScript array: in place inside the array, extending it
\* with holes when file is past its end.
setCell(row, file, v) ==
  IF file <= Len(row)
    THEN [row EXCEPT ![file] = v]
    ELSE row \o [k \in 1..(file - Len(row) - 1) |-> Hole] \o <<v>>

\* The inner loop of createBoardFromSfen over one rank, from character j on with
\* the file cursor at file; returns the row and the final cursor.
RECURSIVE scanRank(_, _, _, _)
scanRank(row, rank, j, file) ==
  IF j > Len(rank)
    THEN [row |-> row, file |-> file]
    ELSE LET char == rank[j] IN
         IF isNaNparseInt(char)
           THEN IF char = "+"
                  THEN LET next == IF j + 1 <= Len(rank) THEN <<rank[j + 1]>>
                                                         ELSE StrUndefined
                       IN  scanRank(setCell(row, file, <<char>> \o next),
                                    rank, j + 2, file + 1)
                  ELSE scanRank(setCell(row, file, <<char>>), rank, j + 1, file + 1)
           ELSE scanRank(row, rank, j + 1, file + parseInt[char])

\* new Array(9).fill(' ')
BlankRow == [f \in 1..9 |-> EmptyCell]

\* createBoardFromSfen without the split at the space (line 28): the fields
\* after the board layout are scanned as part of the last rank.
createBoardFromSfen_wholeString(sfen) ==
  LET ranks == split(sfen, "/")
  IN  [i \in 1..9 |->
         IF i <= Len(ranks) THEN scanRank(BlankRow, ranks[i], 1, 1).row
                            ELSE BlankRow]

\* createBoardFromSfen(sfen).  A rank beyond the ninth has no row to write to
\* (a TypeError in the source); the serialized boards of this model have nine.
createBoardFromSfen(sfen) ==
  LET ranks == split(split(sfen, " ")[1], "/")
  IN  [i \in 1..9 |->
         IF i <= Len(ranks) THEN scanRank(BlankRow, ranks[i], 1, 1).row
                            ELSE BlankRow]

\* encodeRow with line 199 (empty = 0) left out: the count of empty cells is
\* never reset after a token.
RECURSIVE encodeRow_noReset(_, _, _, _)
encodeRow_noReset(row, j, empty, rank) ==
  IF j > Len(row)
    THEN IF empty > 0 THEN rank \o NumToStr(empty) ELSE rank
    ELSE IF row[j] = EmptyCell
           THEN encodeRow_noReset(row, j + 1, empty + 1, rank)
           ELSE encodeRow_noReset(row, j + 1, empty,
                                  (IF empty > 0 THEN rank \o NumToStr(empty)
                                                ELSE rank) \o row[j])

\* The body of _boardToSfen's inner loop: the rank string of one row, from cell
\* j on, with empty cells counted so far in empty and rank built so far.
RECURSIVE encodeRow(_, _, _, _)
encodeRow(row, j, empty, rank) ==
  IF j > Len(row)
    THEN IF empty > 0 THEN rank \o NumToStr(empty) ELSE rank
    ELSE IF row[j] = EmptyCell
           THEN encodeRow(row, j + 1, empty + 1, rank)
           ELSE encodeRow(row, j + 1, 0,
                          (IF empty > 0 THEN rank \o NumToStr(empty) ELSE rank)
                            \o row[j])

\* The outer loop of _boardToSfen from row i on.
RECURSIVE encodeRows(_, _)
encodeRows(b, i) ==
  IF i > Len(b)
    THEN <<>>
    ELSE encodeRow(b[i], 1, 0, <<>>)
           \o (IF i < Len(b) THEN <<"/">> ELSE <<>>)
           \o encodeRows(b, i + 1)

\* _boardToSfen(board)
boardToSfen(b) == encodeRows(b, 1)

\* ------------------------------------------------------- serialized boards

\* The standard opening layout, the argument of the _board initializer.
OpeningLayout ==
  <<"l", "n", "s", "g", "k", "g", "s", "n", "l", "/", "1", "r", "5", "b",
    "1", "/", "p", "p", "p", "p", "p", "p", "p", "p", "p", "/", "9", "/",
    "9", "/", "9", "/", "P", "P", "P", "P", "P", "P", "P", "P", "P", "/",
    "1", "B", "5", "R", "1", "/", "L", "N", "S", "G", "K", "G", "S", "N",
    "L">>

\* Snapshots carry a full SFEN: the board layout, then a space and the fields
\* for the side to move, the pieces in hand and the move number.
SfenStart == OpeningLayout \o <<" ", "b", " ", "-", " ", "1">>
SfenStartAlt == OpeningLayout \o <<" ", "w", " ", "-", " ", "2">>
\* A later position: a pawn exchange, and black's bishop promoted on white's
\* second rank.
SfenMid ==
  <<"l", "n", "s", "g", "k", "g", "s", "n", "l", "/", "1", "r", "5", "+",
    "B", "1", "/", "p", "p", "p", "p", "p", "p", "1", "p", "p", "/", "6",
    "p", "2", "/", "9", "/", "2", "P", "6", "/", "P", "P", "1", "P", "P",
    "P", "P", "P", "P", "/", "7", "R", "1", "/", "L", "N", "S", "G", "K",
    "G", "S", "N", "L", " ", "w", " ", "b", " ", "4">>
\* The serialized boards snapshots are drawn from.
Sfens == {SfenStart, SfenStartAlt, SfenMid}

\* ------------------------------------------------------------ the state

VARIABLES
  model,        \* _model.game of the last snapshot: a game, or NoGame
  occupants,    \* the identifiers of the players in the area
  instanceID,   \* _instanceID
  board,        \* _board, the cached grid
  pending,      \* commands handed to the transport and not answered yet
  lastOp,       \* the operation that ran last
  args,         \* its arguments (makeMove's four coordinates)
  emitted,      \* the events this class emitted during it, in order
  thrown,       \* the error it threw or rejected with, or Undefined
  returned,     \* the value it returned, if it was the read of a getter
  sent,         \* the commands it passed to sendInteractableCommand
  pre,          \* history: isOurTurn and _board as they were before it
  lastGameSfen, \* history: sfen of the last snapshot that carried a game
  lastPhase,    \* history: state.status of the last snapshot's game, if any
  notified,     \* history: the value of the last turnChanged emitted
  cpc,          \* codec run: "edit", "encoded" or "decoded" ("off": no run)
  cboard,       \* codec run: the grid handed to _boardToSfen
  cedits,       \* codec run: the number of cells edited on it
  csfen,        \* codec run: _boardToSfen of the grid
  cdecoded      \* codec run: createBoardFromSfen of that string

vars ==
  <<model, occupants, instanceID, board, pending, lastOp, args, emitted,
    thrown, returned, sent, pre, lastGameSfen, lastPhase, notified, cpc,
    cboard, cedits, csfen, cdecoded>>

controllerVars ==
  <<model, occupants, instanceID, board, pending, lastOp, args, emitted,
    thrown, returned, sent, pre, lastGameSfen, lastPhase, notified>>

codecVars == <<cpc, cboard, cedits, csfen, cdecoded>>

\* ------------------------------------------------------------ the inputs

\* The players of the town; OurPlayer is _townController.ourPlayer.id.
Players == {"p1", "p2"}
OurPlayer == "p1"

\* game.id of a snapshot: a game instance identifier, or the empty string.
GameIDs == {"", "g1"}

Statuses == {"WAITING_FOR_PLAYERS", "WAITING_TO_START", "IN_PROGRESS", "OVER"}

\* A snapshot without a game: newModel.game is undefined.
NoGame == [absent |-> TRUE]

\* The fields of a game (game.id and game.state.*) and the values snapshots
\* give them.
FieldValues(f) ==
  CASE f = "id" -> GameIDs
    [] f = "sfen" -> Sfens
    [] f = "numMoves" -> 0..MaxMoves
    [] f = "white" -> Players \cup {Undefined}
    [] f = "black" -> Players \cup {Undefined}
    [] f = "winner" -> {Undefined, "p2"}
    [] f = "status" -> Statuses

\* The game of the first snapshot that carries one, before any field changes.
FreshGame ==
  [id |-> "g1", sfen |-> SfenStart, numMoves |-> 0, white |-> Undefined,
   black |-> Undefined, winner |-> Undefined, status |-> "WAITING_FOR_PLAYERS"]

\* The fields of game.state, which the server changes from snapshot to snapshot.
StateFields == {"sfen", "numMoves", "white", "black", "winner", "status"}

\* A game names a winner only once it is over.
WellFormed(s) ==
  s.game = NoGame \/ s.game.winner = Undefined \/ s.game.status = "OVER"

\* The snapshots that differ from snapshot s in at most one field: the
\* occupant list, the presence of a game, or one field of the game's state.
OneFieldFrom(s) ==
  {s}
    \cup {[s EXCEPT !.occupants = o] : o \in SUBSET Players}
    \cup (IF s.game = NoGame
            THEN {[s EXCEPT !.game = FreshGame]}
            ELSE {[s EXCEPT !.game = NoGame]}
                   \cup UNION {{[s EXCEPT !.game[f] = v] : v \in FieldValues(f)} :
                                 f \in StateFields})

\* The snapshots that differ from snapshot s in at most k fields.
RECURSIVE Within(_, _)
Within(s, k) ==
  IF k = 0 THEN {s} ELSE UNION {OneFieldFrom(t) : t \in Within(s, k - 1)}

\* The snapshots of a game between p2 (white) and p1 (black), with and without
\* an instance identifier, in every phase, and the snapshots without a game.
GatewaySnapshots ==
  [game : [id : GameIDs, sfen : Sfens, numMoves : 0..MaxMoves, white : {"p2"},
           black : {"p1"}, winner : {Undefined}, status : Statuses]
            \cup {NoGame},
   occupants : {{}, Players}]

\* The snapshots of a game among the players in every assignment of the two
\* roles (unset, one player in both, two players), in progress or over with or
\* without a winner, on the opening board, with every occupant list; and the
\* snapshots without a game.
QuerySnapshots ==
  {s \in [game : [id : {"g1"}, sfen : {SfenStart}, numMoves : 0..MaxMoves,
                  white : FieldValues("white"), black : FieldValues("black"),
                  winner : FieldValues("winner"),
                  status : {"IN_PROGRESS", "OVER"}]
                   \cup {NoGame},
          occupants : SUBSET Players] : WellFormed(s)}

\* The coordinates makeMove is called with (ShogiIndex is 0..8).
MoveArgs == {<<0, 0, 1, 1>>, <<8, 4, 8, 4>>, <<4, 3, 2, 1>>}

\* ------------------------------------------------------------ the getters

\* A JavaScript value that is falsy: undefined or the empty string.
Falsy(v) == v \in {Undefined, ""}

\* _model.game?.state.<f>, and _model.game?.id
stateField(f) == IF model = NoGame THEN Undefined ELSE model[f]

\* findOccupant without the lookup: the identifier is taken for a participant
\* of the area whether or not it is in the occupant list.
findOccupant_noLookup(id) == id

\* occupants.find(eachOccupant => eachOccupant.id === id)
findOccupant(id) == IF id \in occupants THEN id ELSE Undefined

white ==
  LET w == stateField("white") IN IF ~Falsy(w) THEN findOccupant(w) ELSE Undefined

black ==
  LET b == stateField("black") IN IF ~Falsy(b) THEN findOccupant(b) ELSE Undefined

winner ==
  LET w == stateField("winner") IN IF ~Falsy(w) THEN findOccupant(w) ELSE Undefined

\* numMoves || 0
moveCount == IF model = NoGame \/ model.numMoves = 0 THEN 0 ELSE model.numMoves

\* status worked out locally: a game in progress counts as waiting for players
\* while one of its roles resolves to nobody.
status_derived ==
  LET s == stateField("status")
  IN  IF Falsy(s) \/ (s = "IN_PROGRESS" /\ (white = Undefined \/ black = Undefined))
        THEN "WAITING_FOR_PLAYERS"
        ELSE s

status ==
  LET s == stateField("status") IN IF Falsy(s) THEN "WAITING_FOR_PLAYERS" ELSE s

\* whoseTurn without the check of the phase.
whoseTurn_anyPhase ==
  IF white = Undefined \/ black = Undefined
    THEN Undefined
    ELSE IF moveCount % 2 = 0 THEN black ELSE white

\* whoseTurn with the two sides exchanged: white on even counts.
whoseTurn_swapped ==
  IF white = Undefined \/ black = Undefined \/ stateField("status") # "IN_PROGRESS"
    THEN Undefined
    ELSE IF moveCount % 2 = 0 THEN white ELSE black

whoseTurn ==
  IF white = Undefined \/ black = Undefined \/ stateField("status") # "IN_PROGRESS"
    THEN Undefined
    ELSE IF moveCount % 2 = 0 THEN black ELSE white

\* whoseTurn?.id === ourPlayer.id
isOurTurn == whoseTurn = OurPlayer

\* gamePiece with the two branches in the other order: black is looked at
\* first.
gamePiece_blackFirst ==
  IF black = OurPlayer THEN "black"
  ELSE IF white = OurPlayer THEN "white"
  ELSE PLAYER_NOT_IN_GAME_ERROR

\* The value gamePiece returns, or the error it throws.
gamePiece ==
  IF white = OurPlayer THEN "white"
  ELSE IF black = OurPlayer THEN "black"
  ELSE PLAYER_NOT_IN_GAME_ERROR

\* ----------------------------------------------------------- the controller

\* The initializer of _board with white's rook and bishop set up as black's
\* are seen from black's side: rank 8 written '1R5B1'.
InitialBoard_mirrored ==
  createBoardFromSfen(
    SubSeq(OpeningLayout, 1, 42) \o <<"1", "R", "5", "B", "1">>
      \o SubSeq(OpeningLayout, 48, Len(OpeningLayout)))

\* The initializer of _board.
InitialBoard == createBoardFromSfen(OpeningLayout)

\* createBoardFromSfen of each serialized board a snapshot can carry, computed
\* once.
decoded == [s \in Sfens |-> createBoardFromSfen(s)]

\* No snapshot with a game applied yet (history).
NoSfen == <<>>

\* The last snapshot had no game, or none was applied yet (history).
NoPhase == "none"

\* The value the turnChanged listeners heard last: that of the last turnChanged
\* among the events es, or the one heard before them (history).
lastTurnChanged(es, before) ==
  LET tc == SelectSeq(es, LAMBDA e : e.name = "turnChanged")
  IN  IF tc = <<>> THEN before ELSE tc[Len(tc)].arg

\* One emit(name, arg) of this class; cache is this._board as a listener reads
\* it during the call.  The events of the base controller (gameUpdated and the
\* like) pass through unchanged and are not recorded.
Event(name, arg, cache) == [name |-> name, arg |-> arg, cache |-> cache]

\* The events of the last operation delivered to the listeners of `name`.
Delivered(name) == SelectSeq(emitted, LAMBDA e : e.name = name)

\* What every operation records of the state it started in (history).
Before == [isOurTurn |-> isOurTurn, board |-> board]

Init ==
  /\ model = NoGame
  /\ occupants = {}
  /\ instanceID = Undefined
  /\ board = InitialBoard
  /\ pending = <<>>
  /\ lastOp = "new"
  /\ args = <<>>
  /\ emitted = <<>>
  /\ thrown = Undefined
  /\ returned = Undefined
  /\ sent = <<>>
  /\ pre = [isOurTurn |-> FALSE, board |-> InitialBoard]
  /\ lastGameSfen = NoSfen
  /\ lastPhase = NoPhase
  /\ notified = FALSE
  /\ cpc = "off"
  /\ cboard = <<>>
  /\ cedits = 0
  /\ csfen = <<>>
  /\ cdecoded = <<>>

\* super._updateFrom(newModel), with the occupants set by the caller updateFrom:
\* the base controller's refresh of _model, the occupant list and _instanceID
\* (newModel.game?.id ?? this._instanceID).
superUpdateFrom(newModel) ==
  /\ model' = newModel.game
  /\ occupants' = newModel.occupants
  /\ instanceID' = IF newModel.game = NoGame THEN instanceID ELSE newModel.game.id

\* isEqual as a comparison of references (newBoard !== this._board): a grid
\* just built is never the cached object.
isEqual_reference(a, b) == FALSE

\* _.isEqual(newBoard, this._board): deep value equality of the two grids.
isEqual(a, b) == a = b

\* boardAfter that goes back to the opening layout when the snapshot has no
\* game.
boardAfter_resetOnNoGame(newGame) ==
  IF newGame # NoGame
    THEN LET newBoard == decoded[newGame.sfen]
         IN  IF ~isEqual(newBoard, board) THEN newBoard ELSE board
    ELSE InitialBoard

\* boardAfter that merges the decoded grid into the cached one: the cells
\* the snapshot leaves empty keep their cached token.
boardAfter_merge(newGame) ==
  IF newGame # NoGame
    THEN LET newBoard == decoded[newGame.sfen]
         IN  [r \in 1..9 |->
                [c \in 1..9 |-> IF newBoard[r][c] = EmptyCell THEN board[r][c]
                                                              ELSE newBoard[r][c]]]
    ELSE board

\* Lines 231-234: the value of _board after the snapshot's game was looked at.
boardAfter(newGame) ==
  IF newGame # NoGame
    THEN LET newBoard == decoded[newGame.sfen]
         IN  IF ~isEqual(newBoard, board) THEN newBoard ELSE board
    ELSE board

\* Line 235: the emit inside the branch that replaced _board.
boardEvents(newGame) ==
  IF newGame # NoGame /\ ~isEqual(decoded[newGame.sfen], board)
    THEN LET newBoard == decoded[newGame.sfen]
         IN  <<Event("boxardChanged", newBoard, newBoard)>>
    ELSE <<>>

\* turnEvents that reports only the turn gained, not the turn lost.
turnEvents_onlyGained(wasOurTurn, nowOurTurn, cache) ==
  IF ~wasOurTurn /\ nowOurTurn THEN <<Event("turnChanged", nowOurTurn, cache)>>
                               ELSE <<>>

\* turnEvents without the comparison: turnChanged on every snapshot.
turnEvents_always(wasOurTurn, nowOurTurn, cache) ==
  <<Event("turnChanged", nowOurTurn, cache)>>

\* Line 239: if (wasOurTurn !== isOurTurn) this.emit('turnChanged', isOurTurn)
turnEvents(wasOurTurn, nowOurTurn, cache) ==
  IF wasOurTurn # nowOurTurn THEN <<Event("turnChanged", nowOurTurn, cache)>>
                             ELSE <<>>

\* _updateFrom with lines 238-239 moved above the board update: turnChanged is
\* emitted while _board is still the old grid, and before the board's event.
updateFrom_turnFirst(newModel) ==
  LET wasOurTurn == isOurTurn
      newGame == newModel.game
  IN  /\ superUpdateFrom(newModel)
      /\ board' = boardAfter(newGame)
      /\ emitted' = turnEvents(wasOurTurn, isOurTurn', board) \o boardEvents(newGame)
      /\ lastOp' = "updateFrom"
      /\ args' = <<>>
      /\ thrown' = Undefined
      /\ sent' = <<>>
      /\ returned' = Undefined
      /\ pre' = Before
      /\ lastGameSfen' = IF newGame # NoGame THEN newGame.sfen ELSE lastGameSfen
      /\ lastPhase' = IF newGame # NoGame THEN newGame.status ELSE NoPhase
      /\ notified' = lastTurnChanged(emitted', notified)
      /\ UNCHANGED <<pending, codecVars>>

\* _updateFrom that leaves the board branch out while a command awaits the
\* transport's answer, as if the command held the cache.
updateFrom_heldWhilePending(newModel) ==
  LET wasOurTurn == isOurTurn
      newGame == IF pending = <<>> THEN newModel.game ELSE NoGame
  IN  /\ superUpdateFrom(newModel)
      /\ board' = boardAfter(newGame)
      /\ emitted' = boardEvents(newGame) \o turnEvents(wasOurTurn, isOurTurn', board')
      /\ lastOp' = "updateFrom"
      /\ args' = <<>>
      /\ thrown' = Undefined
      /\ sent' = <<>>
      /\ returned' = Undefined
      /\ pre' = Before
      /\ lastGameSfen' = IF newModel.game # NoGame THEN newModel.game.sfen
                                                   ELSE lastGameSfen
      /\ lastPhase' = IF newModel.game # NoGame THEN newModel.game.status
                                                ELSE NoPhase
      /\ notified' = lastTurnChanged(emitted', notified)
      /\ UNCHANGED <<pending, codecVars>>

\* _updateFrom(newModel)
updateFrom(newModel) ==
  LET wasOurTurn == isOurTurn
      newGame == newModel.game
  IN  /\ superUpdateFrom(newModel)
      /\ board' = boardAfter(newGame)
      /\ emitted' = boardEvents(newGame) \o turnEvents(wasOurTurn, isOurTurn', board')
      /\ lastOp' = "updateFrom"
      /\ args' = <<>>
      /\ thrown' = Undefined
      /\ sent' = <<>>
      /\ returned' = Undefined
      /\ pre' = Before
      /\ lastGameSfen' = IF newGame # NoGame THEN newGame.sfen ELSE lastGameSfen
      /\ lastPhase' = IF newGame # NoGame THEN newGame.status ELSE NoPhase
      /\ notified' = lastTurnChanged(emitted', notified)
      /\ UNCHANGED <<pending, codecVars>>

\* notStartable without the check of the instance identifier.
notStartable_noIdCheck(id) == stateField("status") # "WAITING_TO_START"

\* Line 251: the condition under which startGame throws.
notStartable(id) == Falsy(id) \/ stateField("status") # "WAITING_TO_START"

\* startGame that moves the local phase to IN_PROGRESS once the command is
\* sent, ahead of the next snapshot.
startGame_optimistic ==
  LET id == instanceID
      command == [type |-> "StartGame", gameID |-> id]
  IN  /\ IF notStartable(id)
           THEN /\ thrown' = NO_GAME_STARTABLE
                /\ sent' = <<>>
                /\ pending' = pending
                /\ model' = model
           ELSE /\ Len(pending) < MaxPending
                /\ thrown' = Undefined
                /\ sent' = <<command>>
                /\ pending' = Append(pending, command)
                /\ model' = [model EXCEPT !.status = "IN_PROGRESS"]
      /\ lastOp' = "startGame"
      /\ args' = <<>>
      /\ emitted' = <<>>
      /\ returned' = Undefined
      /\ pre' = Before
      /\ UNCHANGED <<occupants, instanceID, board, lastGameSfen,
                 lastPhase, notified, codecVars>>

\* startGame(), up to the await of the transport's answer.
startGame ==
  LET id == instanceID
      command == [type |-> "StartGame", gameID |-> id]
  IN  /\ IF notStartable(id)
           THEN /\ thrown' = NO_GAME_STARTABLE
                /\ sent' = <<>>
                /\ pending' = pending
           ELSE /\ Len(pending) < MaxPending
                /\ thrown' = Undefined
                /\ sent' = <<command>>
                /\ pending' = Append(pending, command)
      /\ lastOp' = "startGame"
      /\ args' = <<>>
      /\ emitted' = <<>>
      /\ returned' = Undefined
      /\ pre' = Before
      /\ UNCHANGED <<model, occupants, instanceID, board, lastGameSfen,
                 lastPhase, notified, codecVars>>

\* notInProgress with the phase of startGame's guard pasted in.
notInProgress_wrongPhase(id) ==
  Falsy(id) \/ stateField("status") # "WAITING_TO_START"

\* Line 277: the condition under which makeMove throws.
notInProgress(id) == Falsy(id) \/ stateField("status") # "IN_PROGRESS"

\* makeMove with the two squares exchanged in the move descriptor.
makeMove_swapped(fRow, fCol, tRow, tCol) ==
  LET id == instanceID
      move == [from |-> [row |-> tRow, col |-> tCol],
               to |-> [row |-> fRow, col |-> fCol]]
      command == [type |-> "GameMove", gameID |-> id, move |-> move]
  IN  /\ IF notInProgress(id)
           THEN /\ thrown' = NO_GAME_IN_PROGRESS_ERROR
                /\ sent' = <<>>
                /\ pending' = pending
           ELSE /\ Len(pending) < MaxPending
                /\ thrown' = Undefined
                /\ sent' = <<command>>
                /\ pending' = Append(pending, command)
      /\ lastOp' = "makeMove"
      /\ args' = <<fRow, fCol, tRow, tCol>>
      /\ emitted' = <<>>
      /\ returned' = Undefined
      /\ pre' = Before
      /\ UNCHANGED <<model, occupants, instanceID, board, lastGameSfen,
                 lastPhase, notified, codecVars>>

\* makeMove(fRow, fCol, tRow, tCol), up to the await of the transport's answer.
makeMove(fRow, fCol, tRow, tCol) ==
  LET id == instanceID
      move == [from |-> [row |-> fRow, col |-> fCol],
               to |-> [row |-> tRow, col |-> tCol]]
      command == [type |-> "GameMove", gameID |-> id, move |-> move]
  IN  /\ IF notInProgress(id)
           THEN /\ thrown' = NO_GAME_IN_PROGRESS_ERROR
                /\ sent' = <<>>
                /\ pending' = pending
           ELSE /\ Len(pending) < MaxPending
                /\ thrown' = Undefined
                /\ sent' = <<command>>
                /\ pending' = Append(pending, command)
      /\ lastOp' = "makeMove"
      /\ args' = <<fRow, fCol, tRow, tCol>>
      /\ emitted' = <<>>
      /\ returned' = Undefined
      /\ pre' = Before
      /\ UNCHANGED <<model, occupants, instanceID, board, lastGameSfen,
                 lastPhase, notified, codecVars>>

\* The sequence s without its i-th element.
RemoveAt(s, i) == SubSeq(s, 1, i - 1) \o SubSeq(s, i + 1, Len(s))

\* The transport acknowledges the i-th pending command: the awaiting call
\* resumes and returns.
transportResolves(i) ==
  /\ pending' = RemoveAt(pending, i)
  /\ lastOp' = "resolved"
  /\ args' = <<>>
  /\ emitted' = <<>>
  /\ thrown' = Undefined
  /\ sent' = <<>>
  /\ returned' = Undefined
  /\ pre' = Before
  /\ UNCHANGED <<model, occupants, instanceID, board, lastGameSfen,
                 lastPhase, notified, codecVars>>

\* The transport rejects the i-th pending command: the awaiting call rejects
\* with the transport's error.
transportRejects(i) ==
  /\ pending' = RemoveAt(pending, i)
  /\ lastOp' = "rejected"
  /\ args' = <<>>
  /\ emitted' = <<>>
  /\ thrown' = "TRANSPORT_ERROR"
  /\ sent' = <<>>
  /\ returned' = Undefined
  /\ pre' = Before
  /\ UNCHANGED <<model, occupants, instanceID, board, lastGameSfen,
                 lastPhase, notified, codecVars>>

\* The snapshot the controller holds.
CurrentSnapshot == [game |-> model, occupants |-> occupants]

\* The command gateway and the sync engine together: snapshots arrive while
\* commands are issued and answered.
Next ==
  \/ \E newModel \in GatewaySnapshots : updateFrom(newModel)
  \/ startGame
  \/ \E m \in MoveArgs : makeMove(m[1], m[2], m[3], m[4])
  \/ \E i \in 1..Len(pending) : transportResolves(i)
  \/ \E i \in 1..Len(pending) : transportRejects(i)

Spec == Init /\ [][Next]_vars

\* The sync engine alone, fed every change of the snapshot's fields.
NextSync ==
  \E newModel \in {s \in Within(CurrentSnapshot, MaxDelta) : WellFormed(s)} :
    updateFrom(newModel)

SpecSync == Init /\ [][NextSync]_vars

\* A read of a getter by a caller: the value returned or the error thrown is
\* recorded, and no field is assigned.
getterRead(name, value, error) ==
  /\ lastOp' = name
  /\ returned' = value
  /\ thrown' = error
  /\ args' = <<>>
  /\ emitted' = <<>>
  /\ sent' = <<>>
  /\ pre' = Before
  /\ UNCHANGED <<model, occupants, instanceID, board, pending, lastGameSfen,
                 lastPhase, notified, codecVars>>

\* controller.gamePiece
getGamePiece ==
  IF gamePiece = PLAYER_NOT_IN_GAME_ERROR
    THEN getterRead("gamePiece", Undefined, PLAYER_NOT_IN_GAME_ERROR)
    ELSE getterRead("gamePiece", gamePiece, Undefined)

\* controller.white
getWhite == getterRead("white", white, Undefined)

\* controller.black
getBlack == getterRead("black", black, Undefined)

\* controller.winner
getWinner == getterRead("winner", winner, Undefined)

\* The derived facts read between snapshots.
NextQuery ==
  \/ \E newModel \in QuerySnapshots : updateFrom(newModel)
  \/ getGamePiece
  \/ getWhite
  \/ getBlack
  \/ getWinner

SpecQuery == Init /\ [][NextQuery]_vars

\* ------------------------------------------------------------ codec runs

\* The grid createBoardFromSfen starts from: nine rows of nine ' ' cells.
BlankBoard == [i \in 1..9 |-> BlankRow]

\* The values of a cell: empty, a base token, a promoted token.
CodecCells == {EmptyCell, <<"p">>, <<"+", "R">>}

\* The rows whose cells a run edits: the second (pieces between empty runs in
\* the opening layout) and the last (the rank that no '/' follows).
CodecRows == {2, 9}

InitCodec ==
  /\ model = NoGame
  /\ occupants = {}
  /\ instanceID = Undefined
  /\ board = InitialBoard
  /\ pending = <<>>
  /\ lastOp = "new"
  /\ args = <<>>
  /\ emitted = <<>>
  /\ thrown = Undefined
  /\ returned = Undefined
  /\ sent = <<>>
  /\ pre = [isOurTurn |-> FALSE, board |-> InitialBoard]
  /\ lastGameSfen = NoSfen
  /\ lastPhase = NoPhase
  /\ notified = FALSE
  /\ cpc = "edit"
  /\ cboard \in {BlankBoard, InitialBoard}
  /\ cedits = 0
  /\ csfen = <<>>
  /\ cdecoded = <<>>

\* Prepare the grid of the run: overwrite one cell.
codecEdit(r, c, v) ==
  /\ cpc = "edit"
  /\ cedits < MaxEdits
  /\ cboard' = [cboard EXCEPT ![r][c] = v]
  /\ cedits' = cedits + 1
  /\ UNCHANGED <<cpc, csfen, cdecoded, controllerVars>>

\* sfen = this._boardToSfen(board)
codecEncode ==
  /\ cpc = "edit"
  /\ csfen' = boardToSfen(cboard)
  /\ cpc' = "encoded"
  /\ UNCHANGED <<cboard, cedits, cdecoded, controllerVars>>

\* The fields a full SFEN carries after the board layout.
TrailingFields == <<" ", "w", " ", "-", " ", "2">>

\* Prepare the string of the run: the encoded layout becomes a full SFEN, as
\* snapshots carry it.
codecAddFields ==
  /\ cpc = "encoded"
  /\ \A k \in 1..Len(csfen) : csfen[k] # " "
  /\ csfen' = csfen \o TrailingFields
  /\ UNCHANGED <<cpc, cboard, cedits, cdecoded, controllerVars>>

\* createBoardFromSfen(sfen)
codecDecode ==
  /\ cpc = "encoded"
  /\ cdecoded' = createBoardFromSfen(csfen)
  /\ cpc' = "decoded"
  /\ UNCHANGED <<cboard, cedits, csfen, controllerVars>>

NextCodec ==
  \/ \E r \in CodecRows, c \in 1..SHOGI_COLS, v \in CodecCells : codecEdit(r, c, v)
  \/ codecEncode
  \/ codecAddFields
  \/ codecDecode

SpecCodec == InitCodec /\ [][NextCodec]_vars

\* ------------------------------------------------------------ the claims

\* An event of the last operation that carries a grid: every event except
\* turnChanged.
CarriesBoard(e) == e.name # "turnChanged"

\* The grid the cache must hold: the decode of the last snapshot's board that
\* came with a game, or of the opening layout.
LastDecoded ==
  IF lastGameSfen = NoSfen THEN createBoardFromSfen(OpeningLayout)
                           ELSE createBoardFromSfen(lastGameSfen)

\* C1: when _updateFrom applies a snapshot with a game whose decoded board is
\* not value-equal to the cached board, the cache becomes the decoded board
\* and exactly one boardChanged notification, carrying that board, reaches the
\* boardChanged listeners.
C1_BoardChangedDelivered ==
  (lastOp = "updateFrom" /\ model # NoGame
     /\ createBoardFromSfen(model.sfen) # pre.board)
    => /\ board = createBoardFromSfen(model.sfen)
       /\ Len(Delivered("boardChanged")) = 1
       /\ Delivered("boardChanged")[1].arg = board

\* C1's case: a snapshot with a new board was applied and the cache replaced.
C1_CacheReplaced ==
  /\ lastOp = "updateFrom"
  /\ model # NoGame
  /\ createBoardFromSfen(model.sfen) # pre.board
  /\ board = createBoardFromSfen(model.sfen)

\* C2: a snapshot application emits turnChanged if and only if isOurTurn after
\* the update differs from isOurTurn before it, once, carrying the new value.
C2_TurnChangedIffFlipped ==
  lastOp = "updateFrom"
    => LET tc == Delivered("turnChanged")
       IN  /\ Len(tc) = IF isOurTurn # pre.isOurTurn THEN 1 ELSE 0
           /\ \A i \in 1..Len(tc) : tc[i].arg = isOurTurn

\* C2's case: the game started on our move with the board unchanged; the
\* snapshot emitted turnChanged(true) and nothing else.
C2_TurnWithoutBoard ==
  /\ lastOp = "updateFrom"
  /\ status = "IN_PROGRESS"
  /\ moveCount = 0
  /\ board = pre.board
  /\ ~pre.isOurTurn
  /\ Len(emitted) = 1
  /\ emitted[1].name = "turnChanged"
  /\ emitted[1].arg = TRUE

\* C3: with the phase IN_PROGRESS and both role-holders among the occupants,
\* whoseTurn is black on an even move count and white on an odd one; in every
\* other state it is undefined and isOurTurn is false.
C3_ParityRule ==
  LET filled(f) == model # NoGame /\ model[f] \in Players /\ model[f] \in occupants
      inProgress == model # NoGame /\ model.status = "IN_PROGRESS"
  IN  IF inProgress /\ filled("white") /\ filled("black")
        THEN whoseTurn = IF model.numMoves % 2 = 0 THEN model.black
                                                   ELSE model.white
        ELSE whoseTurn = Undefined /\ ~isOurTurn

\* C3's case: an odd move count in a game in progress between two occupants;
\* the turn is white's.
C3_OddMoveIsWhite ==
  /\ model # NoGame
  /\ model.status = "IN_PROGRESS"
  /\ model.numMoves = 1
  /\ model.white \in occupants
  /\ model.black \in occupants
  /\ model.white # model.black
  /\ whoseTurn = model.white

\* C4: startGame without an instance identifier or outside WAITING_TO_START
\* throws NO_GAME_STARTABLE and calls the transport zero times; otherwise it
\* sends exactly one StartGame command whose gameID is the instance identifier.
C4_StartGameGuard ==
  lastOp = "startGame"
    => IF Falsy(instanceID) \/ model = NoGame \/ model.status # "WAITING_TO_START"
         THEN thrown = NO_GAME_STARTABLE /\ sent = <<>>
         ELSE /\ thrown = Undefined
              /\ sent = <<[type |-> "StartGame", gameID |-> instanceID]>>

\* C4's case: startGame was called in the phase WAITING_TO_START with no instance
\* identifier, and threw without sending.
C4_ThrownForMissingID ==
  /\ lastOp = "startGame"
  /\ Falsy(instanceID)
  /\ status = "WAITING_TO_START"
  /\ thrown = NO_GAME_STARTABLE
  /\ sent = <<>>

\* C5: makeMove without an instance identifier or outside IN_PROGRESS throws
\* NO_GAME_IN_PROGRESS_ERROR and calls the transport zero times, whatever the
\* coordinates; with an identifier and in IN_PROGRESS it does not throw, whoever
\* holds the turn or the roles.
C5_MakeMoveGuard ==
  lastOp = "makeMove"
    => IF Falsy(instanceID) \/ model = NoGame \/ model.status # "IN_PROGRESS"
         THEN thrown = NO_GAME_IN_PROGRESS_ERROR /\ sent = <<>>
         ELSE thrown = Undefined

\* C5's case: makeMove was called on our turn in a game in progress that has no
\* instance identifier, and threw without sending.
C5_ThrownOnOurTurn ==
  /\ lastOp = "makeMove"
  /\ args = <<8, 4, 8, 4>>
  /\ isOurTurn
  /\ Falsy(instanceID)
  /\ thrown = NO_GAME_IN_PROGRESS_ERROR
  /\ sent = <<>>

\* C6: a snapshot whose decoded board is value-equal to the cached board emits
\* no board notification (no boardChanged, nor any other event carrying a grid)
\* and leaves the cache as it was, whatever else the snapshot changes.
C6_NoOpSuppression ==
  (lastOp = "updateFrom" /\ model # NoGame
     /\ createBoardFromSfen(model.sfen) = pre.board)
    => /\ Delivered("boardChanged") = <<>>
       /\ \A i \in 1..Len(emitted) : ~CarriesBoard(emitted[i])
       /\ board = pre.board

\* C6's case: a snapshot whose string differs from the opening layout only after
\* the first space, and whose other fields changed the turn, was applied to the
\* cached opening position.
C6_SameBoardOtherFields ==
  /\ lastOp = "updateFrom"
  /\ model # NoGame
  /\ model.sfen = SfenStartAlt
  /\ model.numMoves = 1
  /\ pre.board = createBoardFromSfen(OpeningLayout)
  /\ board = pre.board
  /\ Len(emitted) = 1
  /\ emitted[1].name = "turnChanged"

\* C7: within one snapshot application every event carrying the board precedes
\* turnChanged, and when turnChanged is delivered the cache is already the grid
\* the application ends with: the decode of the snapshot's board if it has a
\* game.
C7_BoardBeforeTurn ==
  lastOp = "updateFrom"
    => \A i \in 1..Len(emitted) :
         emitted[i].name = "turnChanged"
           => /\ \A j \in 1..Len(emitted) : CarriesBoard(emitted[j]) => j < i
              /\ emitted[i].cache = board
              /\ model # NoGame => emitted[i].cache = createBoardFromSfen(model.sfen)

\* C7's case: one snapshot changed both the board and the turn.
C7_BothEmitted ==
  /\ lastOp = "updateFrom"
  /\ Len(emitted) = 2
  /\ CarriesBoard(emitted[1])
  /\ emitted[2].name = "turnChanged"
  /\ board # pre.board

\* C8: a snapshot without a game leaves the cached board untouched (the board
\* of the last snapshot with a game, or the opening layout) and emits no board
\* notification; of the two events of this class it can emit only turnChanged.
C8_AbsentGameKeepsBoard ==
  (lastOp = "updateFrom" /\ model = NoGame)
    => /\ board = pre.board
       /\ board = LastDecoded
       /\ Delivered("boardChanged") = <<>>
       /\ \A i \in 1..Len(emitted) : ~CarriesBoard(emitted[i])

\* C8's case: a snapshot without a game arrived on our turn, the cache holding a
\* later position: the board stayed and turnChanged(false) was emitted.
C8_TurnLostBoardKept ==
  /\ lastOp = "updateFrom"
  /\ model = NoGame
  /\ board # createBoardFromSfen(OpeningLayout)
  /\ pre.isOurTurn
  /\ Len(emitted) = 1
  /\ emitted[1].name = "turnChanged"
  /\ emitted[1].arg = FALSE

\* C9: in every reachable state the cached board is a 9x9 grid, the decode of
\* the serialized board of the last applied snapshot that carried a game, or of
\* the opening layout when there was none.
C9_CacheIsLastDecoded ==
  /\ Len(board) = SHOGI_ROWS
  /\ \A r \in 1..SHOGI_ROWS : Len(board[r]) = SHOGI_COLS
  /\ board = LastDecoded

\* C9's case: a later position was cached, then a snapshot without a game was
\* applied and a command issued.
C9_KeptAcrossCommands ==
  /\ lastGameSfen = SfenMid
  /\ model = NoGame
  /\ lastOp = "makeMove"
  /\ board = createBoardFromSfen(SfenMid)

\* C10: createBoardFromSfen(_boardToSfen(b)) is value-equal to b for every 9x9
\* board b of empty cells, base tokens and promoted tokens.
C10_RoundTrip == cpc = "decoded" => cdecoded = cboard

\* C10's case: a board with a promoted token between two empty runs in one rank
\* and an entirely empty last rank went through both functions.
C10_PromotedBetweenEmpties ==
  /\ cpc = "decoded"
  /\ cboard[2][1] = EmptyCell
  /\ cboard[2][2] = <<"+", "R">>
  /\ cboard[2][3] = EmptyCell
  /\ cboard[9] = BlankRow
  /\ cdecoded = cboard

\* The cells one rank describes, by the format's rule: a digit d stands for d
\* empty cells, '+' and the symbol after it for one cell holding both, any
\* other character for one cell holding it.
RECURSIVE rankCells(_)
rankCells(rank) ==
  IF rank = <<>>
    THEN <<>>
    ELSE IF rank[1] \in Digits
           THEN [k \in 1..parseInt[rank[1]] |-> EmptyCell] \o rankCells(Tail(rank))
           ELSE IF rank[1] = "+" /\ Len(rank) >= 2
                  THEN <<<<"+", rank[2]>>>> \o rankCells(SubSeq(rank, 3, Len(rank)))
                  ELSE <<<<rank[1]>>>> \o rankCells(Tail(rank))

\* The part of a string before its first space (all of it if it has none).
RECURSIVE firstField(_)
firstField(s) ==
  IF s = <<>> \/ s[1] = " " THEN <<>> ELSE <<s[1]>> \o firstField(Tail(s))

\* C11: createBoardFromSfen of a well-formed string reads only the field before
\* the first space and returns 9 rows of 9 cells, row i holding the cells that
\* rank i describes (d empty cells per digit d, one two-character cell per
\* promotion marker and symbol, one cell per other character); the column
\* cursor of every rank ends at 9.
C11_DecodeByRanks ==
  cpc = "decoded"
    => LET ranks == split(firstField(csfen), "/")
       IN  /\ Len(ranks) = SHOGI_ROWS
           /\ Len(cdecoded) = SHOGI_ROWS
           /\ \A i \in 1..SHOGI_ROWS :
                 /\ Len(cdecoded[i]) = SHOGI_COLS
                 /\ cdecoded[i] = rankCells(ranks[i])
                 /\ scanRank(BlankRow, ranks[i], 1, 1).file - 1 = SHOGI_COLS

\* C11's case: a full SFEN, with fields after the layout and with a promoted
\* token after an empty cell in its second rank, was decoded.
C11_FullSfenDecoded ==
  /\ cpc = "decoded"
  /\ csfen # firstField(csfen)
  /\ split(csfen, "/")[2][1] = "1"
  /\ split(csfen, "/")[2][2] = "+"
  /\ cdecoded[2][1] = EmptyCell
  /\ cdecoded[2][2] = <<"+", "R">>

\* C12: with an instance identifier and the phase IN_PROGRESS, makeMove(fRow,
\* fCol, tRow, tCol) passes exactly one GameMove command to the transport, its
\* gameID the instance identifier and its move from {row: fRow, col: fCol} to
\* {row: tRow, col: tCol}, whatever the squares hold and whoever is to move.
C12_MoveForwardedAsIs ==
  (lastOp = "makeMove" /\ ~Falsy(instanceID) /\ model # NoGame
     /\ model.status = "IN_PROGRESS")
    => /\ thrown = Undefined
       /\ Len(sent) = 1
       /\ sent[1].type = "GameMove"
       /\ sent[1].gameID = instanceID
       /\ sent[1].move.from = [row |-> args[1], col |-> args[2]]
       /\ sent[1].move.to = [row |-> args[3], col |-> args[4]]
       /\ \A k \in 1..4 : args[k] \in 0..8

\* C12's case: a move from a square that is empty, made out of turn, was
\* forwarded.
C12_EmptyOriginOutOfTurn ==
  /\ lastOp = "makeMove"
  /\ args = <<4, 3, 2, 1>>
  /\ board[args[1] + 1][args[2] + 1] = EmptyCell
  /\ status = "IN_PROGRESS"
  /\ ~isOurTurn
  /\ Len(sent) = 1
  /\ sent[1].move.from = [row |-> 4, col |-> 3]

\* The operations of the command gateway: the two calls up to their await, and
\* the transport's two answers that end the await.
CommandOps == {"startGame", "makeMove", "resolved", "rejected"}

\* C13: a step of startGame or makeMove (a failed precondition, a command
\* sent, the transport's acknowledgement or its rejection) leaves the cached
\* board, the phase, the move count and the role-holders as they were and
\* emits no boardChanged or turnChanged, nor any other event of this class.
C13_CommandsFrame ==
  [][lastOp' \in CommandOps
       => /\ board' = board
          /\ status' = status
          /\ moveCount' = moveCount
          /\ white' = white
          /\ black' = black
          /\ model' = model
          /\ occupants' = occupants
          /\ emitted' = <<>>]_vars

\* C13's case: a move sent in a game in progress, on a board that is not the
\* opening one, was rejected by the transport.
C13_RejectedMoveLeftState ==
  /\ lastOp = "rejected"
  /\ thrown = "TRANSPORT_ERROR"
  /\ status = "IN_PROGRESS"
  /\ moveCount = 1
  /\ board = createBoardFromSfen(SfenMid)
  /\ emitted = <<>>

\* C14: a snapshot applied while a command awaits the transport's answer has
\* the outcome it has with nothing pending (the cache is the decode of its
\* board, one board event exactly when the cache changed, one turnChanged
\* exactly when isOurTurn changed) and leaves the pending commands as they
\* are; a command's payload is built from _instanceID and the arguments as
\* they are at the call.
C14_SnapshotsDuringSuspension ==
  [][/\ (lastOp' = "updateFrom")
          => (/\ pending' = pending
              /\ board' = IF model' # NoGame THEN decoded[model'.sfen] ELSE board
              /\ Len(SelectSeq(emitted', CarriesBoard))
                   = IF board' # board THEN 1 ELSE 0
              /\ Len(SelectSeq(emitted', LAMBDA e : e.name = "turnChanged"))
                   = IF isOurTurn' # isOurTurn THEN 1 ELSE 0)
     /\ (lastOp' \in {"startGame", "makeMove"} /\ sent' # <<>>)
          => (/\ pending' = Append(pending, sent'[1])
              /\ sent'[1].gameID = instanceID)]_vars

\* C14's case: while a move awaited its answer, a snapshot with another board
\* and another instance identifier was applied; the pending command still
\* carries the identifier of the call.
C14_AppliedWhilePending ==
  /\ lastOp = "updateFrom"
  /\ Len(pending) = 1
  /\ pending[1].type = "GameMove"
  /\ pending[1].gameID = "g1"
  /\ instanceID = ""
  /\ board # pre.board
  /\ Len(emitted) = 2

\* The local participant holds role f: the field names it and it is among the
\* occupants.
HoldsRole(f) == model # NoGame /\ model[f] = OurPlayer /\ OurPlayer \in occupants

\* C15: a read of gamePiece returns 'white' when the local participant is the
\* resolved white, else 'black' when it is the resolved black, and throws
\* PLAYER_NOT_IN_GAME_ERROR in every state where it is neither; in all three
\* cases the read assigns no field, sends nothing and emits nothing.
C15_GamePieceQuery ==
  [][lastOp' = "gamePiece"
       => /\ IF HoldsRole("white")
               THEN returned' = "white" /\ thrown' = Undefined
               ELSE IF HoldsRole("black")
                      THEN returned' = "black" /\ thrown' = Undefined
                      ELSE /\ returned' = Undefined
                           /\ thrown' = PLAYER_NOT_IN_GAME_ERROR
          /\ model' = model
          /\ occupants' = occupants
          /\ instanceID' = instanceID
          /\ board' = board
          /\ pending' = pending
          /\ emitted' = <<>>
          /\ sent' = <<>>]_vars

\* C15's case: the local participant is named as black but has left the area;
\* the read threw.
C15_ThrownWhenNotPresent ==
  /\ lastOp = "gamePiece"
  /\ model # NoGame
  /\ model.black = OurPlayer
  /\ OurPlayer \notin occupants
  /\ thrown = PLAYER_NOT_IN_GAME_ERROR

\* The participant field f of the last snapshot resolves to: the occupant with
\* that identifier, or undefined.
Resolved(f) ==
  IF model # NoGame /\ model[f] # Undefined /\ model[f] \in occupants
    THEN model[f]
    ELSE Undefined

\* C16: white, black and winner are each the occupant whose identifier is the
\* corresponding field of the last snapshot's game, and undefined when the
\* field is unset, the snapshot has no game or that participant is not an
\* occupant; reading them throws nothing.
C16_RoleLookup ==
  /\ white = Resolved("white")
  /\ black = Resolved("black")
  /\ winner = Resolved("winner")
  /\ lastOp \in {"white", "black", "winner"}
       => returned = Resolved(lastOp) /\ thrown = Undefined

\* C16's case: the game is over and its winner has left the area; the read of
\* winner returned undefined.
C16_WinnerNotPresent ==
  /\ lastOp = "winner"
  /\ model # NoGame
  /\ model.winner = "p2"
  /\ "p2" \notin occupants
  /\ occupants # {}
  /\ returned = Undefined
  /\ thrown = Undefined

LowerCase ==
  <<"a", "b", "c", "d", "e", "f", "g", "h", "i", "j", "k", "l", "m", "n", "o",
    "p", "q", "r", "s", "t", "u", "v", "w", "x", "y", "z">>

UpperCase ==
  <<"A", "B", "C", "D", "E", "F", "G", "H", "I", "J", "K", "L", "M", "N", "O",
    "P", "Q", "R", "S", "T", "U", "V", "W", "X", "Y", "Z">>

\* The other side's token: every letter of the token in the other case.
otherSide(token) ==
  [k \in 1..Len(token) |->
     IF \E i \in 1..26 : LowerCase[i] = token[k]
       THEN UpperCase[CHOOSE i \in 1..26 : LowerCase[i] = token[k]]
       ELSE IF \E i \in 1..26 : UpperCase[i] = token[k]
              THEN LowerCase[CHOOSE i \in 1..26 : UpperCase[i] = token[k]]
              ELSE token[k]]

\* Cell a of one side answers cell b of the other: both empty, or a the other
\* side's token of b.
Answers(a, b) ==
  IF a = EmptyCell \/ b = EmptyCell THEN a = b ELSE a = otherSide(b)

\* C17 as stated: the initial cache, the decode of the opening layout, is
\* symmetric under row reversal and token swap: cell (r, c) answers cell
\* (8 - r, c).
C17_RowReversalSymmetry ==
  lastGameSfen = NoSfen
    => \A r \in 1..SHOGI_ROWS, c \in 1..SHOGI_COLS :
         Answers(board[r][c], board[SHOGI_ROWS + 1 - r][c])

\* C17, amended: the initial cache, the decode of the opening layout, is
\* symmetric under reversal of the rows and of the columns (a half turn of
\* the board) and token swap: cell (r, c) answers cell (8 - r, 8 - c).
C17_HalfTurnSymmetry ==
  lastGameSfen = NoSfen
    => /\ board = createBoardFromSfen(OpeningLayout)
       /\ \A r \in 1..SHOGI_ROWS, c \in 1..SHOGI_COLS :
            Answers(board[r][c], board[SHOGI_ROWS + 1 - r][SHOGI_COLS + 1 - c])

\* C17's case: the initial cache, with black's bishop opposite white's bishop
\* across the centre and white's rook in black's bishop's column.
C17_OpeningCache ==
  /\ lastGameSfen = NoSfen
  /\ board[2][2] = <<"r">>
  /\ board[2][8] = <<"b">>
  /\ board[8][2] = <<"B">>
  /\ board[8][8] = <<"R">>
  /\ board[1][5] = <<"k">>
  /\ board[9][5] = <<"K">>

\* C18: in every reachable state status is the phase of the game of the last
\* snapshot applied, and WAITING_FOR_PLAYERS when no snapshot was applied or
\* the last one had no game, in whatever order the snapshots' phases come.
C18_StatusFollowsSnapshot ==
  /\ lastPhase \in Statuses \cup {NoPhase}
  /\ status = IF lastPhase = NoPhase THEN "WAITING_FOR_PLAYERS" ELSE lastPhase

\* C18's case: a snapshot took the game from IN_PROGRESS, on our turn, back to
\* WAITING_TO_START, and status followed it.
C18_PhaseWentBack ==
  /\ lastOp = "updateFrom"
  /\ pre.isOurTurn
  /\ lastPhase = "WAITING_TO_START"
  /\ status = "WAITING_TO_START"

\* C19: after any sequence of snapshots the value of the last turnChanged
\* emitted (false if there was none) is isOurTurn, and every turnChanged
\* carries the opposite of the one before it, the first one true.
C19_TurnNotificationsTrack ==
  /\ [](notified = isOurTurn)
  /\ [][lastOp' = "updateFrom"
          => LET tc == SelectSeq(emitted', LAMBDA e : e.name = "turnChanged")
             IN  \A i \in 1..Len(tc) :
                   tc[i].arg = ~(IF i = 1 THEN notified ELSE tc[i - 1].arg)]_vars

\* C19's case: the turn was gained and then lost again; the last turnChanged
\* carried false.
C19_TurnLostNotified ==
  /\ lastOp = "updateFrom"
  /\ pre.isOurTurn
  /\ ~isOurTurn
  /\ ~notified
  /\ Len(emitted) >= 1
  /\ emitted[Len(emitted)].name = "turnChanged"
  /\ emitted[Len(emitted)].arg = FALSE

\* C20: whenever isOurTurn is true the phase is IN_PROGRESS, both role-holders
\* are occupants and gamePiece is a role, read without a throw; with two
\* distinct role-holders that role is black on an even move count and white
\* on an odd one.
C20_OurTurnImpliesRole ==
  isOurTurn
    => /\ model # NoGame
       /\ model.status = "IN_PROGRESS"
       /\ model.white \in occupants
       /\ model.black \in occupants
       /\ gamePiece \in {"white", "black"}
       /\ lastOp = "gamePiece" => thrown = Undefined /\ returned = gamePiece
       /\ model.white # model.black
            => gamePiece = IF model.numMoves % 2 = 0 THEN "black" ELSE "white"

\* C20's case: gamePiece was read on our turn, on an even move count, in a game
\* between two players, and returned black.
C20_ReadOnOurTurn ==
  /\ lastOp = "gamePiece"
  /\ isOurTurn
  /\ model.white = "p2"
  /\ model.numMoves = 0
  /\ returned = "black"

====
